---- MODULE Spec2Model ----
(***************************************************************************)
(* twrs (src/main.rs): a terminal Twitter client.  main sets up the        *)
(* terminal, obtains an access token (get_token: from the stored config    *)
(* or through the interactive OAuth PIN flow), builds a TimelineRenderer   *)
(* and loops forever: update (fetch newer tweets, merge them into a        *)
(* BTreeMap keyed by created_at), draw, sleep 5000 ms.                     *)
(*                                                                         *)
(* The remote service, the user at the PIN prompt, the file system and the *)
(* terminal are the environment: their answers are drawn from small sets.  *)
(***************************************************************************)
EXTENDS Integers, Sequences, FiniteSets, TLC

\* ------------------------------------------------------------------ bounds
MaxTweetId == 2     \* tweet ids are 1..MaxTweetId
MaxTime    == 2     \* created_at instants are 1..MaxTime
MaxPage    == 2     \* tweets in one fetched page (the code asks for PageSize)
DayLen     == 2     \* instants per day, for the %H:%M:%S rendering

\* ------------------------------------------------------- program constants
PageSize   == 30    \* with_page_size(30)
SleepMs    == 5000  \* Duration::from_millis(5000)
PaletteLen == 10    \* colorous::TABLEAU10

\* ------------------------------------------------------------ Option<T>
None == [some |-> FALSE]
Some(v) == [some |-> TRUE, val |-> v]

\* ------------------------------------------------------------ credentials
KeyPair(k, s) == [key |-> k, secret |-> s]

ConsumerPair == KeyPair("ck", "cs")
AccessPairs == {KeyPair("ak", "as")}

\* impl From<Token> for egg_mode::Token
TokenIntoEgg(t) == [kind |-> "Access", consumer |-> t.consumer, access |-> t.access]

\* impl From<egg_mode::Token> for Token; a Bearer token panics
EggIntoToken(t) ==
    IF t.kind = "Access"
    THEN [consumer |-> t.consumer, access |-> t.access]
    ELSE [panic |-> "wrong token type"]

\* struct Config { twitter: Twitter { key, secret, token: Option<Token> } }
MkConfig(k, s, tok) == [twitter |-> [key |-> k, secret |-> s, token |-> tok]]

\* ---------------------------------------------------------- the TOML file
\* The file is a sequence of <<dotted path, value>> lines.
TokenPaths == {"twitter.token.consumer.key", "twitter.token.consumer.secret",
               "twitter.token.access.key", "twitter.token.access.secret"}
ConfigPaths == {"twitter.key", "twitter.secret"} \cup TokenPaths

\* toml::to_string_pretty(&config): values first, then the token tables
TomlToString(c) ==
    << <<"twitter.key", c.twitter.key>>, <<"twitter.secret", c.twitter.secret>> >>
    \o (IF c.twitter.token.some
        THEN << <<"twitter.token.consumer.key", c.twitter.token.val.consumer.key>>,
                <<"twitter.token.consumer.secret", c.twitter.token.val.consumer.secret>>,
                <<"twitter.token.access.key", c.twitter.token.val.access.key>>,
                <<"twitter.token.access.secret", c.twitter.token.val.access.secret>> >>
        ELSE << >>)

TomlHas(lines, p) == \E i \in 1..Len(lines) : lines[i][1] = p
TomlGet(lines, p) == lines[CHOOSE i \in 1..Len(lines) : lines[i][1] = p][2]

\* toml::from_str::<Config> succeeds: required fields present, no duplicate
\* key, and a token table, when present, is complete
TomlParses(lines) ==
    /\ \A i \in 1..Len(lines) : lines[i][1] \in ConfigPaths
    /\ \A i, j \in 1..Len(lines) : lines[i][1] = lines[j][1] => i = j
    /\ TomlHas(lines, "twitter.key") /\ TomlHas(lines, "twitter.secret")
    /\ (\E p \in TokenPaths : TomlHas(lines, p)) => \A p \in TokenPaths : TomlHas(lines, p)

TomlFromStr(lines) ==
    MkConfig(TomlGet(lines, "twitter.key"), TomlGet(lines, "twitter.secret"),
             IF TomlHas(lines, "twitter.token.access.key")
             THEN Some([consumer |-> KeyPair(TomlGet(lines, "twitter.token.consumer.key"),
                                             TomlGet(lines, "twitter.token.consumer.secret")),
                        access |-> KeyPair(TomlGet(lines, "twitter.token.access.key"),
                                           TomlGet(lines, "twitter.token.access.secret"))])
             ELSE None)

NoFile == [exists |-> FALSE, lines |-> << >>]
FileOf(lines) == [exists |-> TRUE, lines |-> lines]

\* the token a later run would load from this file, if any
StoredToken(f) ==
    IF f.exists /\ TomlParses(f.lines) THEN TomlFromStr(f.lines).twitter.token ELSE None

\* the config files a run can start from
InitialFiles ==
    { NoFile,
      FileOf(<< <<"twitter.key", "ck">> >>),
      FileOf(TomlToString(MkConfig("ck", "cs", None))),
      FileOf(TomlToString(MkConfig("ck", "cs",
                 Some([consumer |-> ConsumerPair, access |-> KeyPair("ak0", "as0")])))) }

\* what std::fs::write can leave behind when it fails: the old file (create
\* failed) or a proper prefix of the new content (write_all failed)
FailedWrites(old, lines) ==
    {old} \cup {FileOf(SubSeq(lines, 1, n)) : n \in 0..(Len(lines) - 1)}

\* ----------------------------------------------------------------- tweets
\* egg_mode::tweet::Tweet, reduced to the fields the program reads
Tweets ==
    [id : 1..MaxTweetId, created_at : 1..MaxTime, user : {Some("sam")}]
    \cup {[id |-> 1, created_at |-> 1, user |-> None]}

\* the pages a fetch can answer with
Pages == UNION {[1..n -> Tweets] : n \in 0..MaxPage}

\* BTreeMap::new()
BTreeNew == << >>

\* faulty variant of BTreeInsert: an occupied key keeps its old value
\* (entry(k).or_insert(v))
BTreeInsertKeep(m, k, v) ==
    [x \in (DOMAIN m) \cup {k} |-> IF x \in DOMAIN m THEN m[x] ELSE v]

\* BTreeMap::insert: an existing key keeps its place and takes the new value
BTreeInsert(m, k, v) == [x \in (DOMAIN m) \cup {k} |-> IF x = k THEN v ELSE m[x]]

RECURSIVE SortedKeys(_)
SortedKeys(S) ==
    IF S = {} THEN << >>
    ELSE LET mn == CHOOSE x \in S : \A y \in S : x <= y
         IN <<mn>> \o SortedKeys(S \ {mn})

\* BTreeMap::iter(): the entries in ascending key order
BTreeIter(m) ==
    LET ks == SortedKeys(DOMAIN m)
    IN [i \in 1..Len(ks) |-> <<ks[i], m[ks[i]]>>]

\* Iterator::rev()
Rev(s) == [i \in 1..Len(s) |-> s[Len(s) + 1 - i]]

\* created_at.format("%H:%M:%S"): the time of day, the date is dropped
FormatHMS(t) == t % DayLen

\* update, lines 98-100: for tweet in response.response { insert(created_at, tweet) }
RECURSIVE InsertAll(_, _)
InsertAll(m, resp) ==
    IF resp = << >> THEN m
    ELSE InsertAll(BTreeInsert(m, Head(resp).created_at, Head(resp)), Tail(resp))

\* Timeline::newer answers with the cursor moved to the page it returned
NewerCursor(tl, resp) ==
    [tl EXCEPT !.max_id = IF resp = << >> THEN None ELSE Some(resp[1].id),
               !.min_id = IF resp = << >> THEN None ELSE Some(resp[Len(resp)].id)]

\* faulty variant of Render: the .rev() is missing, oldest first
RenderNoRev(m) ==
    LET items == BTreeIter(m)
    IN [n \in 1..Len(items) |->
           LET i == n - 1
               tweet == items[n][2]
           IN [tweet     |-> tweet,
               timestamp |-> FormatHMS(tweet.created_at),
               username  |-> tweet.user.val,
               color     |-> i % PaletteLen]]

\* render, lines 109-133: one row per buffered tweet, newest first.  A row
\* keeps the tweet it was built from next to the spans it shows.
Render(m) ==
    LET items == Rev(BTreeIter(m))
    IN [n \in 1..Len(items) |->
           LET i == n - 1
               tweet == items[n][2]
           IN [tweet     |-> tweet,
               timestamp |-> FormatHMS(tweet.created_at),
               username  |-> tweet.user.val,
               color     |-> i % PaletteLen]]

\* tweet.user.clone().unwrap() panics on a tweet without a user
RenderPanics(m) == \E k \in DOMAIN m : ~m[k].user.some

\* ------------------------------------------------------------------ state
VARIABLES
    pc,            \* where main (and get_token inside it) stands
    exit,          \* how the process ended: [error, at], at = "" while running
    last,          \* the step taken last
    home,          \* dirs::home_dir() resolves
    file,          \* ~/.config/twrs/config.toml
    nReads,        \* read_to_string calls on the config file
    nWrites,       \* fs::write calls on the config file
    config,        \* get_token's config
    con_token,     \* get_token's con_token
    request_token, \* get_token's request_token
    pin,           \* get_token's pin
    token,         \* the token get_token returned to main
    calls,         \* interactions of the auth handshake made so far
    timeline,      \* widget.timeline
    tweets,        \* widget.tweets
    before,        \* widget.tweets as the update that just returned found it,
                   \* forgotten by the step after it
    response,      \* the page the update that just returned fetched, a local
                   \* of update, forgotten by the step after it
    inFlight,      \* timeline requests awaiting their answer
    frame,         \* the rows of the last completed draw
    fetched,       \* a timeline fetch has been started
    rendersSince,  \* completed draws since the last fetch started
    sleepsSince,   \* completed sleeps since the last fetch started
    sleptMs        \* milliseconds slept since the last fetch started

ctlVars  == <<pc, exit, last>>
fsVars   == <<file, nReads, nWrites>>
authVars == <<config, con_token, request_token, pin, token, calls>>
bufVars  == <<timeline, tweets, before, response>>
loopVars == <<inFlight, frame, fetched, rendersSince, sleepsSince, sleptMs>>
vars == <<ctlVars, home, fsVars, authVars, bufVars, loopVars>>

Running == pc # "exit"

\* main returns Err(error) (or unwinds) out of the step it stood at
Fail(error, step) ==
    /\ pc' = "exit"
    /\ exit' = [error |-> error, at |-> pc]
    /\ last' = step

Goto(next, step) ==
    /\ pc' = next
    /\ last' = step
    /\ UNCHANGED exit

Init ==
    /\ pc = "setup"
    /\ exit = [error |-> "", at |-> ""]
    /\ last = ""
    /\ home \in BOOLEAN
    /\ file \in InitialFiles
    /\ nReads = 0
    /\ nWrites = 0
    /\ config = None
    /\ con_token = None
    /\ request_token = None
    /\ pin = None
    /\ token = None
    /\ calls = {}
    /\ timeline = None
    /\ tweets = BTreeNew
    /\ before = BTreeNew
    /\ response = << >>
    /\ inFlight = 0
    /\ frame = << >>
    /\ fetched = FALSE
    /\ rendersSince = 0
    /\ sleepsSince = 0
    /\ sleptMs = 0

\* ------------------------------------------------------ main, lines 142-146
TerminalSetupOk ==
    /\ pc = "setup"
    /\ Goto("get_token", "TerminalSetupOk")
    /\ UNCHANGED <<home, fsVars, authVars, bufVars, loopVars>>

TerminalSetupErr ==
    /\ pc = "setup"
    /\ Fail("Io", "TerminalSetupErr")
    /\ UNCHANGED <<home, fsVars, authVars, bufVars, loopVars>>

\* ------------------------------------------------- get_token, lines 165-175
HomeDirNone ==
    /\ pc = "get_token"
    /\ ~home
    /\ Fail("Config", "HomeDirNone")
    /\ UNCHANGED <<home, fsVars, authVars, bufVars, loopVars>>

ReadErr ==
    /\ pc = "get_token"
    /\ home
    /\ ~file.exists
    /\ nReads' = nReads + 1
    /\ Fail("Io", "ReadErr")
    /\ UNCHANGED <<home, file, nWrites, authVars, bufVars, loopVars>>

ParseErr ==
    /\ pc = "get_token"
    /\ home
    /\ file.exists
    /\ ~TomlParses(file.lines)
    /\ nReads' = nReads + 1
    /\ Fail("TOMLDeserialize", "ParseErr")
    /\ UNCHANGED <<home, file, nWrites, authVars, bufVars, loopVars>>

\* faulty variant of LoadStored: the stored token is ignored and the
\* handshake runs again
LoadStoredReauth ==
    /\ pc = "get_token"
    /\ home
    /\ file.exists
    /\ TomlParses(file.lines)
    /\ TomlFromStr(file.lines).twitter.token.some
    /\ nReads' = nReads + 1
    /\ config' = Some(TomlFromStr(file.lines))
    /\ con_token' = Some(KeyPair(TomlFromStr(file.lines).twitter.key,
                                 TomlFromStr(file.lines).twitter.secret))
    /\ Goto("request_token", "LoadStored")
    /\ UNCHANGED <<home, file, nWrites, request_token, pin, token, calls,
                   bufVars, loopVars>>

\* Some(t) => t.into()
LoadStored ==
    /\ pc = "get_token"
    /\ home
    /\ file.exists
    /\ TomlParses(file.lines)
    /\ TomlFromStr(file.lines).twitter.token.some
    /\ nReads' = nReads + 1
    /\ config' = Some(TomlFromStr(file.lines))
    /\ token' = Some(TokenIntoEgg(TomlFromStr(file.lines).twitter.token.val))
    /\ Goto("new", "LoadStored")
    /\ UNCHANGED <<home, file, nWrites, con_token, request_token, pin, calls,
                   bufVars, loopVars>>

\* None => the handshake starts
LoadFresh ==
    /\ pc = "get_token"
    /\ home
    /\ file.exists
    /\ TomlParses(file.lines)
    /\ ~TomlFromStr(file.lines).twitter.token.some
    /\ nReads' = nReads + 1
    /\ config' = Some(TomlFromStr(file.lines))
    /\ con_token' = Some(KeyPair(TomlFromStr(file.lines).twitter.key,
                                 TomlFromStr(file.lines).twitter.secret))
    /\ Goto("request_token", "LoadFresh")
    /\ UNCHANGED <<home, file, nWrites, request_token, pin, token, calls,
                   bufVars, loopVars>>

\* ------------------------------------------------- get_token, lines 176-188
\* request_token(&con_token, "oob").await?, then the URL is printed
RequestTokenOk ==
    /\ pc = "request_token"
    /\ request_token' = Some(KeyPair("rk", "rs"))
    /\ calls' = calls \cup {"request_token", "print_url"}
    /\ Goto("pin", "RequestTokenOk")
    /\ UNCHANGED <<home, fsVars, config, con_token, pin, token, bufVars, loopVars>>

RequestTokenErr ==
    /\ pc = "request_token"
    /\ calls' = calls \cup {"request_token"}
    /\ Fail("Twitter", "RequestTokenErr")
    /\ UNCHANGED <<home, fsVars, config, con_token, request_token, pin, token,
                   bufVars, loopVars>>

\* Input::new().with_prompt("PIN").interact_text()?
PinOk ==
    /\ pc = "pin"
    /\ pin' = Some("1234")
    /\ calls' = calls \cup {"pin"}
    /\ Goto("access_token", "PinOk")
    /\ UNCHANGED <<home, fsVars, config, con_token, request_token, token,
                   bufVars, loopVars>>

PinErr ==
    /\ pc = "pin"
    /\ calls' = calls \cup {"pin"}
    /\ Fail("Io", "PinErr")
    /\ UNCHANGED <<home, fsVars, config, con_token, request_token, pin, token,
                   bufVars, loopVars>>

\* access_token(con_token, &request_token, pin).await? answers an Access
\* token built on con_token; config.twitter.token = Some(token.clone().into())
AccessTokenOk ==
    /\ pc = "access_token"
    /\ \E a \in AccessPairs :
          LET t == [kind |-> "Access", consumer |-> con_token.val, access |-> a]
          IN /\ token' = Some(t)
             /\ config' = Some([config.val EXCEPT !.twitter.token = Some(EggIntoToken(t))])
    /\ calls' = calls \cup {"access_token"}
    /\ Goto("save", "AccessTokenOk")
    /\ UNCHANGED <<home, fsVars, con_token, request_token, pin, bufVars, loopVars>>

AccessTokenErr ==
    /\ pc = "access_token"
    /\ calls' = calls \cup {"access_token"}
    /\ Fail("Twitter", "AccessTokenErr")
    /\ UNCHANGED <<home, fsVars, config, con_token, request_token, pin, token,
                   bufVars, loopVars>>

\* std::fs::write(&config_path, toml::to_string_pretty(&config)?)?
SaveOk ==
    /\ pc = "save"
    /\ file' = FileOf(TomlToString(config.val))
    /\ nWrites' = nWrites + 1
    /\ Goto("new", "SaveOk")
    /\ UNCHANGED <<home, nReads, authVars, bufVars, loopVars>>

SerializeErr ==
    /\ pc = "save"
    /\ Fail("TOMLSerialize", "SerializeErr")
    /\ UNCHANGED <<home, fsVars, authVars, bufVars, loopVars>>

\* faulty variant of WriteErr: the result of fs::write is dropped
WriteErrIgnored ==
    /\ pc = "save"
    /\ file' \in FailedWrites(file, TomlToString(config.val))
    /\ nWrites' = nWrites + 1
    /\ Goto("new", "WriteErr")
    /\ UNCHANGED <<home, nReads, authVars, bufVars, loopVars>>

WriteErr ==
    /\ pc = "save"
    /\ file' \in FailedWrites(file, TomlToString(config.val))
    /\ nWrites' = nWrites + 1
    /\ Fail("Io", "WriteErr")
    /\ UNCHANGED <<home, nReads, authVars, bufVars, loopVars>>

\* ------------------------------------------------------ main, lines 149-151
\* home_timeline(&token).with_page_size(30); TimelineRenderer::new(timeline)
NewRenderer ==
    /\ pc = "new"
    /\ timeline' = Some([count |-> PageSize, max_id |-> None, min_id |-> None])
    /\ tweets' = BTreeNew
    /\ Goto("update", "NewRenderer")
    /\ UNCHANGED <<home, fsVars, authVars, before, response, loopVars>>

\* ---------------------------------------------------- update, lines 95-102
\* self.timeline.newer(None) is sent and awaited
UpdateBegin ==
    /\ pc = "update"
    /\ inFlight' = inFlight + 1
    /\ fetched' = TRUE
    /\ rendersSince' = 0
    /\ sleepsSince' = 0
    /\ sleptMs' = 0
    /\ Goto("awaiting", "UpdateBegin")
    /\ UNCHANGED <<home, fsVars, authVars, bufVars, frame>>

\* faulty variant of UpdateTweets: the buffer is keyed by tweet id
RECURSIVE InsertAllById(_, _)
InsertAllById(m, resp) ==
    IF resp = << >> THEN m
    ELSE InsertAllById(BTreeInsert(m, Head(resp).id, Head(resp)), Tail(resp))

UpdateTweetsById(m, resp) == InsertAllById(m, resp)

\* faulty variant of UpdateTweets: the page replaces the buffer
UpdateTweetsReplace(m, resp) == InsertAll(BTreeNew, resp)

\* what Ok(self) holds for a buffer m and a fetched page resp
UpdateTweets(m, resp) == InsertAll(m, resp)

\* faulty variant of UpdateOk: the credentials are saved again on every poll
UpdateOkSaving ==
    /\ pc = "awaiting"
    /\ inFlight' = inFlight - 1
    /\ \E resp \in Pages :
          /\ response' = resp
          /\ timeline' = Some(NewerCursor(timeline.val, resp))
          /\ tweets' = UpdateTweets(tweets, resp)
    /\ before' = tweets
    /\ file' = FileOf(TomlToString(config.val))
    /\ nWrites' = nWrites + 1
    /\ Goto("draw", "UpdateOk")
    /\ UNCHANGED <<home, nReads, authVars, frame, fetched, rendersSince,
                   sleepsSince, sleptMs>>

UpdateOk ==
    /\ pc = "awaiting"
    /\ inFlight' = inFlight - 1
    /\ \E resp \in Pages :
          /\ response' = resp
          /\ timeline' = Some(NewerCursor(timeline.val, resp))
          /\ tweets' = UpdateTweets(tweets, resp)
    /\ before' = tweets
    /\ Goto("draw", "UpdateOk")
    /\ UNCHANGED <<home, fsVars, authVars, frame, fetched, rendersSince,
                   sleepsSince, sleptMs>>

\* faulty variant of UpdateErr: a failed fetch is swallowed and the loop
\* goes on to the next poll
UpdateErrRetry ==
    /\ pc = "awaiting"
    /\ inFlight' = inFlight - 1
    /\ before' = tweets
    /\ Goto("sleep", "UpdateErr")
    /\ UNCHANGED <<home, fsVars, authVars, timeline, tweets, response, frame,
                   fetched, rendersSince, sleepsSince, sleptMs>>

\* the fetch fails: `?` returns before the cursor or the buffer is touched
UpdateErr ==
    /\ pc = "awaiting"
    /\ inFlight' = inFlight - 1
    /\ before' = tweets
    /\ Fail("Twitter", "UpdateErr")
    /\ UNCHANGED <<home, fsVars, authVars, timeline, tweets, response, frame,
                   fetched, rendersSince, sleepsSince, sleptMs>>

\* ------------------------------------------------------ main, lines 156-160
\* terminal.draw(|f| f.render_widget(&widget, f.size()))?
\* faulty variant of DrawOk: the next poll starts without the sleep
DrawOkNoSleep ==
    /\ pc = "draw"
    /\ ~RenderPanics(tweets)
    /\ frame' = Render(tweets)
    /\ rendersSince' = rendersSince + 1
    /\ before' = BTreeNew
    /\ response' = << >>
    /\ Goto("update", "DrawOk")
    /\ UNCHANGED <<home, fsVars, authVars, timeline, tweets, inFlight, fetched,
                   sleepsSince, sleptMs>>

DrawOk ==
    /\ pc = "draw"
    /\ ~RenderPanics(tweets)
    /\ frame' = Render(tweets)
    /\ rendersSince' = rendersSince + 1
    /\ before' = BTreeNew
    /\ response' = << >>
    /\ Goto("sleep", "DrawOk")
    /\ UNCHANGED <<home, fsVars, authVars, timeline, tweets, inFlight, fetched,
                   sleepsSince, sleptMs>>

\* the terminal fails (size, cursor or flush): `?` returns the io error
DrawErr ==
    /\ pc = "draw"
    /\ before' = BTreeNew
    /\ response' = << >>
    /\ Fail("Io", "DrawErr")
    /\ UNCHANGED <<home, fsVars, authVars, timeline, tweets, loopVars>>

\* render unwraps the user of a tweet that has none
DrawPanic ==
    /\ pc = "draw"
    /\ RenderPanics(tweets)
    /\ before' = BTreeNew
    /\ response' = << >>
    /\ Fail("panic", "DrawPanic")
    /\ UNCHANGED <<home, fsVars, authVars, timeline, tweets, loopVars>>

\* faulty variant of Sleep: main returns Ok(()) after one pass, as the plain
\* mode does
SleepReturn ==
    /\ pc = "sleep"
    /\ sleepsSince' = sleepsSince + 1
    /\ sleptMs' = sleptMs + SleepMs
    /\ pc' = "exit"
    /\ exit' = [error |-> "", at |-> pc]
    /\ last' = "Sleep"
    /\ UNCHANGED <<home, fsVars, authVars, bufVars, inFlight, frame, fetched,
                   rendersSince>>

\* std::thread::sleep(Duration::from_millis(5000)), then the loop repeats
Sleep ==
    /\ pc = "sleep"
    /\ sleepsSince' = sleepsSince + 1
    /\ sleptMs' = sleptMs + SleepMs
    /\ Goto("update", "Sleep")
    /\ UNCHANGED <<home, fsVars, authVars, bufVars, inFlight, frame, fetched,
                   rendersSince>>

\* the process is interrupted from outside (a signal)
Interrupt ==
    /\ Running
    /\ before' = BTreeNew
    /\ response' = << >>
    /\ Fail("interrupted", "Interrupt")
    /\ UNCHANGED <<home, fsVars, authVars, timeline, tweets, loopVars>>

Next ==
    \/ TerminalSetupOk \/ TerminalSetupErr
    \/ HomeDirNone \/ ReadErr \/ ParseErr \/ LoadStored \/ LoadFresh
    \/ RequestTokenOk \/ RequestTokenErr
    \/ PinOk \/ PinErr
    \/ AccessTokenOk \/ AccessTokenErr
    \/ SaveOk \/ SerializeErr \/ WriteErr
    \/ NewRenderer
    \/ UpdateBegin \/ UpdateOk \/ UpdateErr
    \/ DrawOk \/ DrawErr \/ DrawPanic
    \/ Sleep
    \/ Interrupt

Spec == Init /\ [][Next]_vars

\* ------------------------------------------------------------- properties
LoopPcs == {"update", "awaiting", "draw", "sleep"}
HandshakePcs == {"request_token", "pin", "access_token", "save"}

\* the timestamps of a page
Timestamps(resp) == {resp[i].created_at : i \in 1..Len(resp)}

\* the last position of a page that carries timestamp ts
LastAt(resp, ts) ==
    CHOOSE j \in 1..Len(resp) :
        /\ resp[j].created_at = ts
        /\ \A k \in (j + 1)..Len(resp) : resp[k].created_at # ts

\* C1: the rows of every completed draw are the buffer's tweets, one row per
\* entry, with non-increasing timestamps from the first row to the last
\* (newest first).
C1_NewestFirst ==
    /\ \A i, j \in 1..Len(frame) :
          i < j => frame[i].tweet.created_at >= frame[j].tweet.created_at
    /\ last = "DrawOk" =>
          /\ Len(frame) = Cardinality(DOMAIN tweets)
          /\ \A i \in 1..Len(frame) :
                /\ frame[i].tweet.created_at \in DOMAIN tweets
                /\ tweets[frame[i].tweet.created_at] = frame[i].tweet

\* rows drawn after several polls, the newer tweet above the older one
C1_Witness ==
    /\ last = "DrawOk"
    /\ Len(frame) >= 2
    /\ frame[1].tweet.created_at > frame[2].tweet.created_at
    /\ frame[1].tweet.id # frame[2].tweet.id

\* C2: after an update, every timestamp of the fetched page maps to the
\* tweet inserted last for it (whether the key came from an earlier poll or
\* from earlier in the same page), and the buffer iterates exactly one entry
\* for that timestamp.
C2_LastWriteWins ==
    last = "UpdateOk" =>
        \A ts \in Timestamps(response) :
            /\ ts \in DOMAIN tweets
            /\ tweets[ts] = response[LastAt(response, ts)]
            /\ Cardinality({n \in 1..Len(BTreeIter(tweets)) :
                               BTreeIter(tweets)[n][1] = ts}) = 1

\* an update overwrote a tweet of an earlier poll
C2_Witness ==
    /\ last = "UpdateOk"
    /\ \E ts \in Timestamps(response) :
          /\ ts \in DOMAIN before
          /\ before[ts] # tweets[ts]

\* C3: an update that found the buffer empty leaves it with as many entries
\* as the page has distinct timestamps.
C3_MergeIntoEmpty ==
    (last = "UpdateOk" /\ before = BTreeNew) =>
        Cardinality(DOMAIN tweets) = Cardinality(Timestamps(response))

\* the first page repeats a timestamp: two tweets fetched, one entry kept
C3_Witness ==
    /\ last = "UpdateOk"
    /\ before = BTreeNew
    /\ Len(response) = 2
    /\ response[1].created_at = response[2].created_at
    /\ response[1] # response[2]
    /\ Cardinality(DOMAIN tweets) = 1

\* C4: no step removes a key from the buffer, so its size never decreases.
C4_GrowsMonotonically ==
    [][/\ DOMAIN tweets \subseteq DOMAIN tweets'
       /\ Cardinality(DOMAIN tweets') >= Cardinality(DOMAIN tweets)]_vars

\* an update added a key to a buffer that already held one
C4_Witness ==
    /\ last = "UpdateOk"
    /\ before # BTreeNew
    /\ DOMAIN before \subseteq DOMAIN tweets
    /\ DOMAIN before # DOMAIN tweets

\* C5: when the fetch fails, update has inserted nothing and left the cursor
\* alone, main has returned the Twitter error, no fetch is in flight, nothing
\* was drawn or slept since the fetch started, and no further step can occur.
C5_FetchErrorUnwinds ==
    last = "UpdateErr" =>
        /\ pc = "exit"
        /\ exit = [error |-> "Twitter", at |-> "awaiting"]
        /\ tweets = before
        /\ inFlight = 0
        /\ rendersSince = 0 /\ sleepsSince = 0 /\ sleptMs = 0
        /\ ~ENABLED Next

\* a fetch failed in a later pass of the loop, with tweets already buffered
C5_Witness ==
    /\ last = "UpdateErr"
    /\ pc = "exit"
    /\ tweets # BTreeNew
    /\ frame # << >>

\* C6, as stated: the loop is left only by an interruption or a failed fetch.
C6_OnlyFetchErrorExits ==
    (pc = "exit" /\ exit.at \in LoopPcs) =>
        \/ exit.error = "interrupted"
        \/ exit = [error |-> "Twitter", at |-> "awaiting"]

\* C6, amended: the loop is left only by an interruption, a failed fetch or
\* a failed draw (a terminal io error, or render's unwrap panicking on a
\* tweet without a user); at the top of the loop, while the fetch is awaited
\* and after the draw, the next step of the loop is always there to take.
C6_OnlyErrorsExit ==
    /\ (pc = "exit" /\ exit.at \in LoopPcs) =>
          \/ exit.error = "interrupted"
          \/ exit = [error |-> "Twitter", at |-> "awaiting"]
          \/ exit = [error |-> "Io", at |-> "draw"]
          \/ exit = [error |-> "panic", at |-> "draw"]
    /\ pc = "update" => ENABLED UpdateBegin
    /\ pc = "awaiting" => ENABLED UpdateOk
    /\ pc = "sleep" => ENABLED Sleep

\* the draw failed and main returned its io error out of the loop
C6_Witness ==
    /\ pc = "exit"
    /\ exit = [error |-> "Io", at |-> "draw"]
    /\ fetched

\* C7: a fetch starts only when none is in flight and, after the first one,
\* only after exactly one draw and one sleep of SleepMs since the previous
\* fetch started; a draw completes only right after a successful update and
\* shows the buffer that update produced.
C7_SequentialLoop ==
    [][/\ inFlight' <= 1
       /\ inFlight' > inFlight =>
             /\ inFlight = 0
             /\ fetched => (rendersSince = 1 /\ sleepsSince = 1 /\ sleptMs = SleepMs)
       /\ rendersSince' > rendersSince =>
             /\ last = "UpdateOk"
             /\ tweets = UpdateTweets(before, response)
             /\ frame' = Render(tweets)
             /\ rendersSince' = 1]_vars

\* the second fetch is in flight, after one draw and one sleep
C7_Witness ==
    /\ pc = "awaiting"
    /\ inFlight = 1
    /\ frame # << >>

\* C8: a stored token is converted and returned with no request-token call,
\* no PIN prompt, no exchange and no write of the config file; the handshake
\* is never entered while the file holds a token.
C8_StoredTokenNoNetwork ==
    /\ last = "LoadStored" =>
          /\ pc = "new"
          /\ StoredToken(file).some
          /\ token = Some([kind |-> "Access",
                           consumer |-> StoredToken(file).val.consumer,
                           access |-> StoredToken(file).val.access])
          /\ calls = {}
          /\ nWrites = 0
          /\ ~fetched
    /\ pc \in HandshakePcs => ~StoredToken(file).some
    /\ calls = {} => (nWrites = 0 /\ file \in InitialFiles)

\* the loop runs on a stored token: nothing of the handshake happened
C8_Witness ==
    /\ pc = "draw"
    /\ calls = {}
    /\ StoredToken(file).some
    /\ token.some

\* C9: the config file is read at most once, at startup, before anything
\* else (exactly once in every run that gets past get_token's load), and
\* written at most once, only after the PIN was exchanged for an access
\* token; the number of writes is settled before the first fetch.
C9_ReadOnceWriteOnce ==
    /\ nReads <= 1 /\ nWrites <= 1
    /\ pc \in {"setup", "get_token"} => nReads = 0
    /\ pc \in HandshakePcs \cup {"new"} \cup LoopPcs => nReads = 1
    /\ nWrites = 1 => ("access_token" \in calls /\ token.some /\ pin.some)
    /\ pc \in HandshakePcs => nWrites = 0
    /\ fetched => nWrites = (IF "access_token" \in calls THEN 1 ELSE 0)

\* a first run: read once, written once, now polling
C9_Witness ==
    /\ pc = "sleep"
    /\ nReads = 1
    /\ nWrites = 1

\* C10: when a step of the handshake fails, main ends with that error having
\* fetched and drawn nothing, and unless the failed step was the write the
\* file holds no token; a fetch starts only with a token in hand, which on
\* the first-run path is the token the file now holds.
C10_AuthFailureStopsMain ==
    /\ (pc = "exit" /\ exit.at \in HandshakePcs /\ exit.error # "interrupted") =>
          /\ exit.error \in {"Twitter", "Io", "TOMLSerialize"}
          /\ ~fetched /\ frame = << >> /\ timeline = None
          /\ last # "WriteErr" => (nWrites = 0 /\ ~StoredToken(file).some)
          /\ ~ENABLED Next
    /\ fetched =>
          /\ token.some
          /\ "access_token" \in calls =>
                /\ nWrites = 1
                /\ file.exists
                /\ StoredToken(file) = Some(EggIntoToken(token.val))
                /\ TokenIntoEgg(StoredToken(file).val) = token.val

\* the exchange of the PIN failed: nothing written, nothing fetched
C10_Witness ==
    /\ pc = "exit"
    /\ exit = [error |-> "Twitter", at |-> "access_token"]
    /\ ~StoredToken(file).some
    /\ ~fetched
====
